---- MODULE Spec2Model ----
(***************************************************************************)
(* State-machine model of SpineAnnotationTool                              *)
(* (src/label_dendritic_spines.py): the annotation store, the measurement  *)
(* table, the pointer-driven box editing handlers, deletion, navigation,   *)
(* stack loading and the JSON snapshot save/load.                          *)
(*                                                                         *)
(* Python dicts are modelled as TLA+ functions (insertion order is not     *)
(* kept; where the code iterates a dict to build an ordered result, every  *)
(* order is allowed).  The DataFrame is a sequence of row records.         *)
(* Floating-point lengths are kept in hundredths, rounded to nearest.      *)
(* An exception raised inside a Tk callback is reported by Tk and the      *)
(* application goes on: the state is the one at the raise point.           *)
(***************************************************************************)
EXTENDS Integers, Sequences, FiniteSets, TLC

\* ------------------------------------------------------------------ bounds

\* Pointer gestures (pointer-down events) in an annotation session.
MaxGestures == 2

\* Pointer gestures in a session that also saves and loads snapshots.
MaxSnapshotGestures == 1

\* Pointer gestures in a session that exercises every handle of a box.
MaxHandleGestures == 3

\* Pointer gestures in a session of stack loads and registrations.
MaxStackGestures == 1

\* Pointer gestures in a session that zooms through the whole range.
MaxZoomGestures == 1

\* Pointer gestures in a session that approaches a box at another zoom.
MaxViewGestures == 2

\* Spines named, and pointer gestures made, in a session that uses up the
\* palette.
MaxSpines == 9
MaxPaletteGestures == 10

\* Pointer gestures in a session whose gestures are interleaved with the
\* keyboard-driven controls.
MaxMidGestures == 3

\* ------------------------------------------------------- program constants

\* pixel_to_micron = 1/7.75 = 4/31
PixelToMicronNum == 4
PixelToMicronDen == 31

\* stability_threshold (pixels)
stability_threshold == 50

\* available_colors
available_colors ==
    <<"red", "blue", "green", "orange", "purple", "cyan", "yellow", "pink">>

\* ------------------------------------------------------------ environment

None == "None"

\* Spine names the user types or selects.
SpineNames == {"spine_1", "spine_2"}

\* Folders the user can pick in load_images: the sorted .tif files of each,
\* with the shape (width, height) of the 2-D array each file reduces to.
Folders ==
    [A |-> << [path |-> "A/t0.tif", w |-> 60, h |-> 60],
              [path |-> "A/t1.tif", w |-> 60, h |-> 60] >>,
     B |-> << [path |-> "B/t0.tif", w |-> 20, h |-> 20] >>]

\* Canvas positions at which pointer events are delivered.
CanvasPoints == { <<10, 10>>, <<30, 30>>, <<50, 50>> }

\* The positions used in a session that also saves and loads snapshots.
SnapshotPoints == { <<10, 10>>, <<50, 50>> }

\* The positions used in a session that exercises every handle of a box.
HandlePoints ==
    { <<10, 10>>, <<15, 15>>, <<30, 30>>, <<50, 50>>, <<50, 10>>, <<10, 50>> }

\* Canvas points of a session at two zoom levels: the corners of a box and
\* a point 8 canvas pixels from the zoomed top-left corner.
ViewPoints == { <<4, 4>>, <<10, 10>>, <<50, 50>> }

\* The canvas point of a session that uses up the palette.
PalettePoints == { <<10, 10>> }

\* ---------------------------------------------------------------- helpers

Min(a, b) == IF a <= b THEN a ELSE b
Max(a, b) == IF a >= b THEN a ELSE b
Abs(a) == IF a >= 0 THEN a ELSE -a

\* ------------------------------------------- Python float (IEEE 754 double)

\* A natural number of any size is a sequence of limbs, least significant
\* first, without high zero limbs; zero is the empty sequence.
LimbBits == 14

\* The base of the limbs.
Radix == 2^LimbBits

\* Bits kept in the significand of a double.
DoubleBits == 53

RECURSIVE BigTrim(_)
BigTrim(a) ==
    IF a = <<>> THEN a
    ELSE IF a[Len(a)] = 0 THEN BigTrim(SubSeq(a, 1, Len(a) - 1)) ELSE a

RECURSIVE BigOfNat(_)
BigOfNat(n) == IF n = 0 THEN <<>> ELSE <<n % Radix>> \o BigOfNat(n \div Radix)

RECURSIVE NatOfBig(_)
NatOfBig(a) == IF a = <<>> THEN 0 ELSE a[1] + Radix * NatOfBig(Tail(a))

Limb(a, i) == IF i <= Len(a) THEN a[i] ELSE 0

RECURSIVE BigAddFrom(_, _, _, _)
BigAddFrom(a, b, i, carry) ==
    IF i > Len(a) /\ i > Len(b)
    THEN IF carry = 0 THEN <<>> ELSE <<carry>>
    ELSE LET s == Limb(a, i) + Limb(b, i) + carry
         IN <<s % Radix>> \o BigAddFrom(a, b, i + 1, s \div Radix)

BigAdd(a, b) == BigAddFrom(a, b, 1, 0)

\* a - b for a >= b.
RECURSIVE BigSubFrom(_, _, _, _)
BigSubFrom(a, b, i, borrow) ==
    IF i > Len(a) THEN <<>>
    ELSE LET d == a[i] - Limb(b, i) - borrow
         IN <<(d + Radix) % Radix>>
               \o BigSubFrom(a, b, i + 1, IF d < 0 THEN 1 ELSE 0)

BigSub(a, b) == BigTrim(BigSubFrom(a, b, 1, 0))

RECURSIVE BigCmpAt(_, _, _)
BigCmpAt(a, b, i) ==
    IF i = 0 THEN 0
    ELSE IF a[i] < b[i] THEN -1
    ELSE IF a[i] > b[i] THEN 1
    ELSE BigCmpAt(a, b, i - 1)

\* -1, 0 or 1 as a < b, a = b or a > b.
BigCmp(a, b) ==
    IF Len(a) < Len(b) THEN -1
    ELSE IF Len(a) > Len(b) THEN 1
    ELSE BigCmpAt(a, b, Len(a))

\* a * k + carry for 0 <= k < Radix.
RECURSIVE BigMulSmallFrom(_, _, _, _)
BigMulSmallFrom(a, k, i, carry) ==
    IF i > Len(a)
    THEN IF carry = 0 THEN <<>> ELSE <<carry>>
    ELSE LET s == a[i] * k + carry
         IN <<s % Radix>> \o BigMulSmallFrom(a, k, i + 1, s \div Radix)

BigMulSmall(a, k, carry) == BigTrim(BigMulSmallFrom(a, k, 1, carry))

RECURSIVE BigMul(_, _)
BigMul(a, b) ==
    IF a = <<>> \/ b = <<>> THEN <<>>
    ELSE BigTrim(BigAdd(BigMulSmall(a, b[1], 0), <<0>> \o BigMul(a, Tail(b))))

\* Quotient and remainder of the limbs 1..i of a by d, 0 < d <= Radix, with
\* remainder r carried down from the limbs above.
RECURSIVE BigDivSmallAt(_, _, _, _)
BigDivSmallAt(a, d, i, r) ==
    IF i = 0 THEN [q |-> <<>>, r |-> r]
    ELSE LET cur == r * Radix + a[i]
             rest == BigDivSmallAt(a, d, i - 1, cur % d)
         IN [q |-> Append(rest.q, cur \div d), r |-> rest.r]

BigDivSmall(a, d) ==
    LET res == BigDivSmallAt(a, d, Len(a), 0)
    IN [q |-> BigTrim(res.q), r |-> res.r]

RECURSIVE SmallBitLen(_)
SmallBitLen(n) == IF n = 0 THEN 0 ELSE 1 + SmallBitLen(n \div 2)

BigBitLen(a) ==
    IF a = <<>> THEN 0 ELSE LimbBits * (Len(a) - 1) + SmallBitLen(a[Len(a)])

\* a * 2^k.
BigShl(a, k) ==
    IF a = <<>> \/ k = 0 THEN a
    ELSE [i \in 1..(k \div LimbBits) |-> 0]
            \o BigMulSmall(a, 2^(k % LimbBits), 0)

\* floor(a / 2^k), and whether bits were shifted out.
BigShr(a, k) ==
    LET drop == Min(k \div LimbBits, Len(a))
        low == SubSeq(a, 1, drop)
        res == BigDivSmall(SubSeq(a, drop + 1, Len(a)), 2^(k % LimbBits))
    IN [q |-> res.q,
        sticky |-> res.r # 0 \/ \E i \in 1..drop : low[i] # 0]

BigIsOdd(a) == a # <<>> /\ a[1] % 2 = 1

\* Trailing zero bits of n > 0.
RECURSIVE SmallTrailingZeros(_)
SmallTrailingZeros(n) ==
    IF n % 2 = 1 THEN 0 ELSE 1 + SmallTrailingZeros(n \div 2)

\* A non-negative double is m * 2^e with m odd, or m = 0 and e = 0.
RECURSIVE FNormal(_, _)
FNormal(m, e) ==
    IF m = <<>> THEN [m |-> <<>>, e |-> 0]
    ELSE IF m[1] = 0 THEN FNormal(Tail(m), e + LimbBits)
    ELSE LET t == SmallTrailingZeros(m[1])
         IN [m |-> BigDivSmall(m, 2^t).q, e |-> e + t]

\* The double nearest to (m + f) * 2^e, where 0 <= f < 1 and f > 0 exactly
\* when sticky: round to nearest, ties to even.
FRound(m, e, sticky) ==
    LET len == BigBitLen(m)
    IN IF len <= DoubleBits THEN FNormal(m, e)
       ELSE LET s == len - DoubleBits
                sh == BigShr(m, s - 1)
                half == BigIsOdd(sh.q)
                q == BigDivSmall(sh.q, 2).q
                up == half /\ (sticky \/ sh.sticky \/ BigIsOdd(q))
            IN FNormal(IF up THEN BigAdd(q, <<1>>) ELSE q, e + s)

\* float(n) for a small non-negative integer n.
FromInt(n) == FNormal(BigOfNat(n), 0)

\* a * b.
FMul(a, b) == FRound(BigMul(a.m, b.m), a.e + b.e, FALSE)

\* Limbs of the operands and of the quotient in a division: enough for the
\* significand, a rounding digit and a digit to spare.
DivLimbs == (DoubleBits + 2 + LimbBits - 1) \div LimbBits

\* The largest digit q <= est with d * q <= r.
RECURSIVE QuotientDigitFrom(_, _, _)
QuotientDigitFrom(r, d, est) ==
    IF BigCmp(BigMulSmall(d, est, 0), r) <= 0 THEN est
    ELSE QuotientDigitFrom(r, d, est - 1)

\* floor(r / d) for r < d * Radix, d of DivLimbs limbs with its top bit set:
\* estimated from the leading limbs, then corrected.
QuotientDigit(r, d) ==
    LET top == Limb(r, Len(d) + 1) * Radix + Limb(r, Len(d))
    IN QuotientDigitFrom(r, d, Min(top \div d[Len(d)], Radix - 1))

\* Long division of r by d for r < d: the first n limbs of r / d after the
\* point, appended to the digits q, and the remainder.
RECURSIVE BigDivLimbs(_, _, _, _)
BigDivLimbs(r, d, q, n) ==
    IF n = 0 THEN [q |-> BigTrim(q), r |-> r]
    ELSE IF r = <<>> THEN BigDivLimbs(r, d, <<0>> \o q, n - 1)
    ELSE LET r2 == <<0>> \o r
             digit == QuotientDigit(r2, d)
         IN BigDivLimbs(BigSub(r2, BigMulSmall(d, digit, 0)), d,
                        <<digit>> \o q, n - 1)

\* a / b for b > 0; a division by a power of two only moves the exponent.
FDiv(a, b) ==
    IF a.m = <<>> THEN a
    ELSE IF b.m = <<1>> THEN [m |-> a.m, e |-> a.e - b.e]
    ELSE LET len == DivLimbs * LimbBits
             sa == len - BigBitLen(a.m)
             sb == len - BigBitLen(b.m)
             num == BigShl(a.m, sa)
             den == BigShl(b.m, sb)
             first == BigCmp(num, den) >= 0
             res == BigDivLimbs(IF first THEN BigSub(num, den) ELSE num, den,
                                IF first THEN <<1>> ELSE <<>>, DivLimbs)
         IN FRound(res.q, (a.e - sa) - (b.e - sb) - len, res.r # <<>>)

\* -1, 0 or 1 as a < b, a = b or a > b.
FCmp(a, b) ==
    LET e == Min(a.e, b.e)
    IN BigCmp(BigShl(a.m, a.e - e), BigShl(b.m, b.e - e))

\* a + b; adding zero changes nothing.
FAdd(a, b) ==
    IF a.m = <<>> THEN b
    ELSE IF b.m = <<>> THEN a
    ELSE LET e == Min(a.e, b.e)
         IN FRound(BigAdd(BigShl(a.m, a.e - e), BigShl(b.m, b.e - e)), e,
                   FALSE)

\* a - b for a >= b; subtracting zero changes nothing.
FSub(a, b) ==
    IF b.m = <<>> THEN a
    ELSE LET e == Min(a.e, b.e)
         IN FRound(BigSub(BigShl(a.m, a.e - e), BigShl(b.m, b.e - e)), e,
                   FALSE)

\* Python min and max of two floats.
FMin(a, b) == IF FCmp(b, a) < 0 THEN b ELSE a
FMax(a, b) == IF FCmp(b, a) > 0 THEN b ELSE a

\* int(a): truncation toward zero.
FTrunc(a) ==
    IF a.e >= 0 THEN NatOfBig(BigShl(a.m, a.e))
    ELSE NatOfBig(BigShr(a.m, -a.e).q)

\* floor(sqrt(n)) by bisection; lo*lo <= n < hi*hi.
RECURSIVE ISqrtBetween(_, _, _)
ISqrtBetween(n, lo, hi) ==
    IF hi - lo <= 1 THEN lo
    ELSE LET mid == (lo + hi) \div 2
         IN IF mid * mid <= n THEN ISqrtBetween(n, mid, hi)
                              ELSE ISqrtBetween(n, lo, mid)

\* sqrt(n) rounded to the nearest integer.
RoundSqrt(n) ==
    LET r == ISqrtBetween(n, 0, 46341)
    IN IF n - r * r > r THEN r + 1 ELSE r

\* (x2 - x1)**2 + (y2 - y1)**2
SquaredDiagonal(box) ==
    (box[3] - box[1]) * (box[3] - box[1]) + (box[4] - box[2]) * (box[4] - box[2])

\* math.sqrt((x2 - x1)**2 + (y2 - y1)**2), in hundredths of a pixel.
diagonal_pixels(box) == RoundSqrt(SquaredDiagonal(box) * 10000)

\* diagonal_pixels * self.pixel_to_micron, in hundredths of a micron.
diagonal_microns(box) ==
    (2 * diagonal_pixels(box) * PixelToMicronNum + PixelToMicronDen)
        \div (2 * PixelToMicronDen)

\* The stability test applied to the micron length instead of the pixel length.
is_stable_microns(box) == diagonal_microns(box) < stability_threshold * 100

\* diagonal_pixels < self.stability_threshold
is_stable(box) == diagonal_pixels(box) < stability_threshold * 100

\* The row_data dict built from a box.
row_data(spine, idx, box) ==
    [spine_name |-> spine, image_idx |-> idx,
     length_pixels |-> diagonal_pixels(box),
     length_microns |-> diagonal_microns(box),
     stable |-> is_stable(box)]

\* The mask built from the spine name alone: every row of the spine goes.
drop_rows_of_spine(df, spine, idx) ==
    SelectSeq(df, LAMBDA r : r.spine_name # spine)

\* df[~mask]: the rows whose (spine_name, image_idx) is not the key.
RECURSIVE drop_rows(_, _, _)
drop_rows(df, spine, idx) ==
    IF df = <<>> THEN <<>>
    ELSE LET rest == drop_rows(Tail(df), spine, idx)
         IN IF Head(df).spine_name = spine /\ Head(df).image_idx = idx
            THEN rest ELSE <<Head(df)>> \o rest

\* The upsert without the removal: the new row is appended to the table as is.
upsert_row_append_only(df, spine, idx, box) ==
    Append(df, row_data(spine, idx, box))

\* The upsert that keeps a key's existing row and writes only new keys.
upsert_row_keep_existing(df, spine, idx, box) ==
    IF \E i \in DOMAIN df : df[i].spine_name = spine /\ df[i].image_idx = idx
    THEN df
    ELSE Append(df, row_data(spine, idx, box))

\* Remove the key's row and append the new one (pd.concat, ignore_index).
upsert_row(df, spine, idx, box) ==
    Append(drop_rows(df, spine, idx), row_data(spine, idx, box))

\* d with d[k] = v (Python item assignment on a dict).
DictSet(d, k, v) ==
    [x \in DOMAIN d \cup {k} |-> IF x = k THEN v ELSE d[x]]

\* d without key k (Python del d[k]).
DictDel(d, k) == [x \in DOMAIN d \ {k} |-> d[x]]

EmptyDict == [x \in {} |-> None]


\* The (spine, frame) keys that have a box in a store.
BoxKeys(store) ==
    {k \in (DOMAIN store) \X (UNION {DOMAIN store[s] : s \in DOMAIN store}) :
        k[2] \in DOMAIN store[k[1]]}

\* The orders in which a finite set can be enumerated.
Orderings(S) ==
    {f \in [1..Cardinality(S) -> S] : \A i, j \in DOMAIN f : i # j => f[i] # f[j]}

\* ------------------------------------------------------------------- JSON

Digits == <<"0", "1", "2", "3", "4", "5", "6", "7", "8", "9">>

\* str(k) of a non-negative int: its decimal digits, as a sequence.
RECURSIVE py_str(_)
py_str(k) ==
    IF k < 10 THEN <<Digits[k + 1]>>
    ELSE py_str(k \div 10) \o <<Digits[(k % 10) + 1]>>

\* The position of a digit character in Digits, taken for its value.
DigitPosition(c) == CHOOSE d \in 1..10 : Digits[d] = c

\* The value of a decimal digit character.
DigitValue(c) == CHOOSE d \in 0..9 : Digits[d + 1] = c

\* int(s) of a decimal digit string.
RECURSIVE py_int(_)
py_int(s) ==
    IF Len(s) = 1 THEN DigitValue(s[1])
    ELSE 10 * py_int(SubSeq(s, 1, Len(s) - 1)) + DigitValue(s[Len(s)])

\* json.dump writes a tuple as an array; json.load reads an array as a list.
json_array(t) == [array |-> t]

\* tuple(v) of a list read from JSON.
py_tuple(v) == v.array

\* {spine: {str(k): v for k, v in annots.items()} for spine, annots in ...}
encode_annotations(store) ==
    [s \in DOMAIN store |->
        [key \in {py_str(k) : k \in DOMAIN store[s]} |->
            json_array(store[s][CHOOSE k \in DOMAIN store[s] : py_str(k) = key])]]

\* {spine: {int(k): tuple(v) for k, v in annots.items()} for spine, annots in ...}
decode_annotations(obj) ==
    [s \in DOMAIN obj |->
        [k \in {py_int(key) : key \in DOMAIN obj[s]} |->
            py_tuple(obj[s][CHOOSE key \in DOMAIN obj[s] : py_int(key) = k])]]

\* ------------------------------------------------------------------ state

VARIABLES
    images,             \* self.images: shape [w, h] and array kind of each frame
    image_paths,        \* self.image_paths
    current_image_idx,  \* self.current_image_idx
    registration_applied, \* self.registration_applied
    global_minmax,      \* self.global_minmax: <<>> (None or unset) or <<bounds>>
    current_spine_name, \* self.current_spine_name
    spine_annotations,  \* self.spine_annotations: spine -> (frame -> box)
    spine_colors,       \* self.spine_colors: spine -> colour
    color_index,        \* self.color_index
    measurements_df,    \* self.measurements_df: the rows, in order
    zoom_factor,        \* self.zoom_factor, a double [m, e]
    pan_x, pan_y,       \* self.pan_x, self.pan_y
    drawing,            \* self.drawing
    editing_mode,       \* self.editing_mode
    editing_spine,      \* self.editing_spine
    editing_corner,     \* self.editing_corner
    start_x, start_y,   \* self.start_x, self.start_y
    original_box,       \* self.original_box
    editing_frame,      \* history: the frame shown when editing_mode was set
                        \* (the program keeps no such field)
    spine_dropdown,     \* self.spine_dropdown['values']
    snapshot_file,      \* the JSON file written by save_annotations: <<>> or <<data>>
    pointer_down,       \* host: the pointer button is held (down, move*, up order)
    gestures,           \* host: pointer-down events delivered so far
    lastOp              \* history: the handler (and branch) that last wrote the
                        \* annotation store or the measurement table, or
                        \* reported a failure

vars ==
    <<images, image_paths, current_image_idx, registration_applied,
      global_minmax, current_spine_name, spine_annotations, spine_colors, color_index, measurements_df,
      zoom_factor, pan_x, pan_y, drawing, editing_mode, editing_spine,
      editing_corner, start_x, start_y, original_box, editing_frame,
      spine_dropdown, snapshot_file, pointer_down, gestures, lastOp>>

\* The annotation store and the measurement table.
storeVars == <<spine_annotations, spine_colors, color_index, measurements_df>>

stackVars == <<images, image_paths, current_image_idx, registration_applied>>

viewVars == <<zoom_factor, pan_x, pan_y>>

gestureVars ==
    <<drawing, editing_mode, editing_spine, editing_corner,
      start_x, start_y, original_box, editing_frame>>

Op(name, branch) == [op |-> name, branch |-> branch]

\* __init__
Init ==
    /\ images = <<>>
    /\ image_paths = <<>>
    /\ current_image_idx = 0
    /\ registration_applied = FALSE
    /\ global_minmax = <<>>
    /\ current_spine_name = "spine_1"
    /\ spine_annotations = EmptyDict
    /\ spine_colors = EmptyDict
    /\ color_index = 0
    /\ measurements_df = <<>>
    /\ zoom_factor = FromInt(1)
    /\ pan_x = 0
    /\ pan_y = 0
    /\ drawing = FALSE
    /\ editing_mode = FALSE
    /\ editing_spine = None
    /\ editing_corner = None
    /\ start_x = None
    /\ start_y = None
    /\ original_box = None
    /\ editing_frame = None
    /\ spine_dropdown = {}
    /\ snapshot_file = <<>>
    /\ pointer_down = FALSE
    /\ gestures = 0
    /\ lastOp = Op("__init__", "")

\* ---------------------------------------------------------------- display

\* update_display's effect on the dropdown: it returns early with no stack,
\* raises IndexError at images[current_image_idx] when the index is past the
\* stack, and otherwise reaches update_spine_dropdown.
update_display(imgs, idx, store, dropdown) ==
    IF imgs = <<>> \/ idx >= Len(imgs) THEN dropdown ELSE DOMAIN store

\* The stack-wide display bounds (percentiles over every frame), named by
\* the frames they are computed from.
minmax_of(imgs) == imgs

\* update_display's effect on self.global_minmax: computed from the loaded
\* frames when it is None or unset, otherwise kept; not reached with no stack
\* or when images[current_image_idx] raises.
display_bounds(imgs, idx, cache) ==
    IF imgs = <<>> \/ idx >= Len(imgs) THEN cache
    ELSE IF cache = <<>> THEN <<minmax_of(imgs)>> ELSE cache

\* canvas_to_image_coords: int((canvas - pan) / zoom) on each axis, in float
\* arithmetic; the canvas coordinates are floats (an event's integers
\* converted, or the result of image_to_canvas_coords).
canvas_to_image_coords(canvas_x, canvas_y) ==
    << FTrunc(FDiv(FSub(canvas_x, FromInt(pan_x)), zoom_factor)),
       FTrunc(FDiv(FSub(canvas_y, FromInt(pan_y)), zoom_factor)) >>

\* image_to_canvas_coords: pan + img * zoom on each axis, floats.
image_to_canvas_coords(img_x, img_y) ==
    << FAdd(FromInt(pan_x), FMul(FromInt(img_x), zoom_factor)),
       FAdd(FromInt(pan_y), FMul(FromInt(img_y), zoom_factor)) >>

\* tolerance = max(8 / self.zoom_factor, 3)
tolerance == FMax(FDiv(FromInt(8), zoom_factor), FromInt(3))

\* abs(d) <= tolerance
within_tolerance(d) == FCmp(FromInt(Abs(d)), tolerance) <= 0

CornerNames == <<"tl", "tr", "bl", "br">>

\* The corners dict of find_corner_at_point, in its iteration order.
corners(box) ==
    << <<box[1], box[2]>>, <<box[3], box[2]>>,
       <<box[1], box[4]>>, <<box[3], box[4]>> >>

\* The hit test with the interior checked before the corners: a corner that
\* lies inside the box is reported as 'move'.
find_corner_move_first(img_x, img_y) ==
    IF /\ current_spine_name \in DOMAIN spine_annotations
       /\ current_image_idx \in DOMAIN spine_annotations[current_spine_name]
    THEN LET box == spine_annotations[current_spine_name][current_image_idx]
         IN IF /\ box[1] <= img_x /\ img_x <= box[3]
               /\ box[2] <= img_y /\ img_y <= box[4]
            THEN "move"
            ELSE IF \E i \in 1..4 :
                       /\ within_tolerance(img_x - corners(box)[i][1])
                       /\ within_tolerance(img_y - corners(box)[i][2])
                 THEN CornerNames[CHOOSE i \in 1..4 :
                          /\ within_tolerance(img_x - corners(box)[i][1])
                          /\ within_tolerance(img_y - corners(box)[i][2])]
                 ELSE None
    ELSE None

\* find_corner_at_point: the handle of the current spine's box on the current
\* frame under the image point, or None.  Called with a stack loaded.
find_corner_at_point(img_x, img_y) ==
    IF /\ current_spine_name \in DOMAIN spine_annotations
       /\ current_image_idx \in DOMAIN spine_annotations[current_spine_name]
    THEN LET box == spine_annotations[current_spine_name][current_image_idx]
             hit == {i \in 1..4 :
                        /\ within_tolerance(img_x - corners(box)[i][1])
                        /\ within_tolerance(img_y - corners(box)[i][2])}
         IN IF hit # {}
            THEN CornerNames[CHOOSE i \in hit : \A j \in hit : i <= j]
            ELSE IF /\ box[1] <= img_x /\ img_x <= box[3]
                    /\ box[2] <= img_y /\ img_y <= box[4]
                 THEN "move"
                 ELSE None
    ELSE None


\* ------------------------------------------------------------ stack loading

\* tifffile.imread(path), reduced to 2-D, astype(np.uint16): a numpy array.
read_frame(file) == [w |-> file.w, h |-> file.h, kind |-> "ndarray"]

\* load_images: the folder's files are read in order into self.images and
\* self.image_paths, which were emptied first; then the index, the flags and
\* the display are reset.
load_images(folder) ==
    LET files == Folders[folder]
    IN /\ images' = [i \in 1..Len(files) |-> read_frame(files[i])]
       /\ image_paths' = [i \in 1..Len(files) |-> files[i].path]
       /\ current_image_idx' = 0
       /\ registration_applied' = FALSE
       /\ spine_dropdown' =
            update_display(images', 0, spine_annotations, spine_dropdown)
       /\ global_minmax' = display_bounds(images', 0, <<>>)
       /\ UNCHANGED lastOp
       /\ UNCHANGED <<current_spine_name, storeVars, viewVars, gestureVars,
                      snapshot_file, pointer_down, gestures>>

\* load_images when tifffile.imread raises on the n-th file: the lists were
\* emptied, the files before the n-th have been appended, and nothing after
\* the loop runs (index, registration flag and bounds cache keep their values).
load_images_raise(folder, n) ==
    LET files == Folders[folder]
    IN /\ n \in 1..Len(files)
       /\ images' = [i \in 1..(n - 1) |-> read_frame(files[i])]
       /\ image_paths' = [i \in 1..(n - 1) |-> files[i].path]
       /\ UNCHANGED lastOp
       /\ UNCHANGED <<current_image_idx, registration_applied, global_minmax,
                      current_spine_name, storeVars, viewVars, gestureVars,
                      spine_dropdown, snapshot_file, pointer_down, gestures>>

\* ------------------------------------------------------------ registration

\* self.images[i].convert('L'): a PIL image has the method, a numpy array
\* (what load_images stores) raises AttributeError.
has_convert(frame) == frame.kind = "PIL"

\* The frame Image.fromarray(registered_array.astype(np.uint8)) of a frame.
registered_frame(frame) == [frame EXCEPT !.kind = "PIL"]

\* registered_images when the loop completes: the first frame as it is, the
\* others registered to it.
registered_images(imgs) ==
    [i \in DOMAIN imgs |-> IF i = 1 THEN imgs[1] ELSE registered_frame(imgs[i])]

\* The flag as it would be if it were assigned before the frames are
\* registered.
flag_set_before_loop(flag) == TRUE

\* self.registration_applied after a registration that raised: the flag is
\* assigned only after the loop.
flag_after_failed_registration(flag) == flag

\* register_images, every frame registered: the stack is replaced, the flag
\* is set and the display refreshed; the bounds cache is left as it is.
register_images ==
    /\ images # <<>>
    /\ \A i \in DOMAIN images : has_convert(images[i])
    /\ images' = registered_images(images)
    /\ registration_applied' = TRUE
    /\ spine_dropdown' =
         update_display(images', current_image_idx, spine_annotations,
                        spine_dropdown)
    /\ global_minmax' = display_bounds(images', current_image_idx, global_minmax)
    /\ lastOp' = Op("register_images", "successfully registered")
    /\ UNCHANGED <<image_paths, current_image_idx, current_spine_name, storeVars,
                   viewVars, gestureVars, snapshot_file, pointer_down, gestures>>

\* register_images when it raises (IndexError at images[0] with no stack,
\* AttributeError at the first frame without convert): the except clause
\* shows "registration failed"; self.images was never assigned.
register_images_raise ==
    /\ \/ images = <<>>
       \/ \E i \in DOMAIN images : ~has_convert(images[i])
    /\ registration_applied' = flag_after_failed_registration(registration_applied)
    /\ lastOp' = Op("register_images", "registration failed")
    /\ UNCHANGED <<images, image_paths, current_image_idx, global_minmax,
                   current_spine_name, storeVars, viewVars, gestureVars,
                   spine_dropdown, snapshot_file, pointer_down, gestures>>

\* ------------------------------------------------------------ pointer-down

\* on_canvas_click with no stack loaded: returns at once.
on_canvas_click_return(p) ==
    /\ ~pointer_down
    /\ images = <<>>
    /\ pointer_down' = TRUE
    /\ gestures' = gestures + 1
    /\ UNCHANGED lastOp
    /\ UNCHANGED <<stackVars, current_spine_name, storeVars, viewVars,
                   gestureVars, spine_dropdown, global_minmax, snapshot_file>>

\* on_canvas_click on a handle of the active spine's box: start editing.
on_canvas_click_edit(p) ==
    LET img == canvas_to_image_coords(FromInt(p[1]), FromInt(p[2]))
        corner == find_corner_at_point(img[1], img[2])
    IN /\ ~pointer_down
       /\ images # <<>>
       /\ corner # None
       /\ pointer_down' = TRUE
       /\ gestures' = gestures + 1
       /\ editing_mode' = TRUE
       /\ editing_spine' = current_spine_name
       /\ editing_corner' = corner
       /\ start_x' = img[1]
       /\ start_y' = img[2]
       /\ original_box' = spine_annotations[current_spine_name][current_image_idx]
       /\ editing_frame' = current_image_idx
       /\ UNCHANGED lastOp
       /\ UNCHANGED <<stackVars, current_spine_name, storeVars, viewVars,
                      drawing, spine_dropdown, global_minmax, snapshot_file>>

\* on_canvas_click elsewhere: start drawing a new box.
on_canvas_click_draw(p) ==
    LET img == canvas_to_image_coords(FromInt(p[1]), FromInt(p[2]))
        corner == find_corner_at_point(img[1], img[2])
    IN /\ ~pointer_down
       /\ images # <<>>
       /\ corner = None
       /\ pointer_down' = TRUE
       /\ gestures' = gestures + 1
       /\ drawing' = TRUE
       /\ start_x' = img[1]
       /\ start_y' = img[2]
       /\ UNCHANGED lastOp
       /\ UNCHANGED <<stackVars, current_spine_name, storeVars, viewVars,
                      editing_mode, editing_spine, editing_corner, original_box,
                      editing_frame, spine_dropdown, global_minmax,
                      snapshot_file>>

\* ------------------------------------------------------------ pointer-move

\* The box on_canvas_drag computes: the original box with the displacement
\* from the anchor applied to the held handle.
dragged_box(box, corner, dx, dy) ==
    CASE corner = "tl" -> <<box[1] + dx, box[2] + dy, box[3], box[4]>>
      [] corner = "tr" -> <<box[1], box[2] + dy, box[3] + dx, box[4]>>
      [] corner = "bl" -> <<box[1] + dx, box[2], box[3], box[4] + dy>>
      [] corner = "br" -> <<box[1], box[2], box[3] + dx, box[4] + dy>>
      [] corner = "move" -> <<box[1] + dx, box[2] + dy, box[3] + dx, box[4] + dy>>
      [] OTHER -> box

\* The pointer-move starting from the box now stored instead of the box
\* captured at pointer-down: displacements accumulate.
drag_source_stored == spine_annotations[editing_spine][current_image_idx]

\* x1, y1, x2, y2 = self.original_box: the box each pointer-move starts from.
drag_source == original_box

\* on_canvas_drag with no stack loaded: returns at once.
on_canvas_drag_return(p) ==
    /\ pointer_down
    /\ images = <<>>
    /\ UNCHANGED lastOp
    /\ UNCHANGED <<stackVars, current_spine_name, storeVars, viewVars,
                   gestureVars, spine_dropdown, global_minmax, snapshot_file, pointer_down,
                   gestures>>

\* on_canvas_drag while editing: the box of (editing_spine, current frame) is
\* overwritten in the store; the measurement table is not touched.
on_canvas_drag_edit(p) ==
    LET img == canvas_to_image_coords(FromInt(p[1]), FromInt(p[2]))
        box == dragged_box(drag_source, editing_corner,
                           img[1] - start_x, img[2] - start_y)
    IN /\ pointer_down
       /\ images # <<>>
       /\ editing_mode
       /\ editing_spine \in DOMAIN spine_annotations
       /\ spine_annotations' =
            DictSet(spine_annotations, editing_spine,
                    DictSet(spine_annotations[editing_spine],
                            current_image_idx, box))
       /\ spine_dropdown' =
            update_display(images, current_image_idx, spine_annotations',
                           spine_dropdown)
       /\ global_minmax' = display_bounds(images, current_image_idx, global_minmax)
       /\ lastOp' = Op("on_canvas_drag", "edit")
       /\ UNCHANGED <<stackVars, current_spine_name, spine_colors, color_index,
                      measurements_df, viewVars, gestureVars, snapshot_file,
                      pointer_down, gestures>>

\* on_canvas_drag while editing a spine the store no longer holds: KeyError.
on_canvas_drag_edit_raise(p) ==
    /\ pointer_down
    /\ images # <<>>
    /\ editing_mode
    /\ editing_spine \notin DOMAIN spine_annotations
    /\ UNCHANGED lastOp
    /\ UNCHANGED <<stackVars, current_spine_name, storeVars, viewVars,
                   gestureVars, spine_dropdown, global_minmax, snapshot_file, pointer_down,
                   gestures>>

\* A pointer-move while drawing as it would be if it stored the box from the
\* anchor to the pointer, the way the editing branch stores its box.
on_canvas_drag_store(p) ==
    LET img == canvas_to_image_coords(FromInt(p[1]), FromInt(p[2]))
        held == IF current_spine_name \in DOMAIN spine_annotations
                THEN spine_annotations[current_spine_name]
                ELSE EmptyDict
    IN /\ pointer_down
       /\ images # <<>>
       /\ ~editing_mode
       /\ drawing
       /\ spine_annotations' =
            DictSet(spine_annotations, current_spine_name,
                    DictSet(held, current_image_idx,
                            <<start_x, start_y, img[1], img[2]>>))
       /\ UNCHANGED lastOp
       /\ UNCHANGED <<stackVars, current_spine_name, spine_colors, color_index,
                      measurements_df, viewVars, gestureVars, spine_dropdown,
                      global_minmax, snapshot_file, pointer_down, gestures>>

\* on_canvas_drag while drawing (a preview rectangle on the canvas only), or
\* with no gesture flag set.
on_canvas_drag_preview(p) ==
    /\ pointer_down
    /\ images # <<>>
    /\ ~editing_mode
    /\ UNCHANGED lastOp
    /\ UNCHANGED <<stackVars, current_spine_name, storeVars, viewVars,
                   gestureVars, spine_dropdown, global_minmax, snapshot_file, pointer_down,
                   gestures>>


\* -------------------------------------------------------------- pointer-up

\* The coordinates taken as given, without the min/max ordering.
ordered_as_given(x1, y1, x2, y2) == <<x1, y1, x2, y2>>

\* x1, x2 = min(x1, x2), max(x1, x2); y1, y2 = min(y1, y2), max(y1, y2)
ordered(x1, y1, x2, y2) ==
    <<Min(x1, x2), Min(y1, y2), Max(x1, x2), Max(y1, y2)>>

\* The clamp with the upper limit left out.
clamp_low_only(v, limit) == Max(0, v)

\* max(0, min(v, limit))
clamp(v, limit) == Max(0, Min(v, limit))

\* The box save_annotation stores: ordered, then clamped to the shape of the
\* current frame.
saved_box(x1, y1, x2, y2) ==
    LET b == ordered(x1, y1, x2, y2)
        img == images[current_image_idx + 1]
    IN <<clamp(b[1], img.w), clamp(b[2], img.h),
         clamp(b[3], img.w), clamp(b[4], img.h)>>

\* The box on_canvas_release stores when an edit ends: the stored box, ordered.
released_box(box) == ordered(box[1], box[2], box[3], box[4])

\* The palette entry taken without the wrap-around: the last colour once
\* the palette is used up.
next_color_unwrapped(idx) ==
    available_colors[Min(idx, Len(available_colors) - 1) + 1]

\* available_colors[color_index % len(available_colors)]
next_color(idx) == available_colors[(idx % Len(available_colors)) + 1]

\* save_annotation: create the spine (and its colour) when new, store the box
\* for (current spine, current frame), upsert its row, refresh the display.
save_annotation(x1, y1, x2, y2) ==
    LET box == saved_box(x1, y1, x2, y2)
        new == current_spine_name \notin DOMAIN spine_annotations
        colour == new /\ current_spine_name \notin DOMAIN spine_colors
        annots == IF new THEN EmptyDict
                  ELSE spine_annotations[current_spine_name]
    IN /\ spine_colors' =
            IF colour
            THEN DictSet(spine_colors, current_spine_name,
                         next_color(color_index))
            ELSE spine_colors
       /\ color_index' = IF colour THEN color_index + 1 ELSE color_index
       /\ spine_annotations' =
            DictSet(spine_annotations, current_spine_name,
                    DictSet(annots, current_image_idx, box))
       /\ measurements_df' =
            upsert_row(measurements_df, current_spine_name, current_image_idx, box)
       /\ spine_dropdown' =
            update_display(images, current_image_idx, spine_annotations',
                           spine_dropdown)
       /\ global_minmax' = display_bounds(images, current_image_idx, global_minmax)

\* on_canvas_release with no stack loaded: returns at once, flags untouched.
on_canvas_release_return(p) ==
    /\ pointer_down
    /\ images = <<>>
    /\ pointer_down' = FALSE
    /\ UNCHANGED lastOp
    /\ UNCHANGED <<stackVars, current_spine_name, storeVars, viewVars,
                   gestureVars, spine_dropdown, global_minmax, snapshot_file, gestures>>

\* on_canvas_release while editing: order the stored box, store it, replace
\* its row, leave editing mode.
on_canvas_release_edit(p) ==
    /\ pointer_down
    /\ images # <<>>
    /\ editing_mode
    /\ editing_spine \in DOMAIN spine_annotations
    /\ current_image_idx \in DOMAIN spine_annotations[editing_spine]
    /\ LET box == released_box(spine_annotations[editing_spine][current_image_idx])
       IN /\ spine_annotations' =
               DictSet(spine_annotations, editing_spine,
                       DictSet(spine_annotations[editing_spine],
                               current_image_idx, box))
          /\ measurements_df' =
               upsert_row(measurements_df, editing_spine, current_image_idx, box)
    /\ editing_mode' = FALSE
    /\ editing_spine' = None
    /\ editing_corner' = None
    /\ editing_frame' = None
    /\ spine_dropdown' =
         update_display(images, current_image_idx, spine_annotations',
                        spine_dropdown)
    /\ global_minmax' = display_bounds(images, current_image_idx, global_minmax)
    /\ pointer_down' = FALSE
    /\ lastOp' = Op("on_canvas_release", "edit")
    /\ UNCHANGED <<stackVars, current_spine_name, spine_colors, color_index,
                   viewVars, drawing, start_x, start_y, original_box,
                   snapshot_file, gestures>>

\* on_canvas_release while editing, when (editing_spine, current frame) has
\* no box in the store any more: KeyError before anything is written.
on_canvas_release_edit_raise(p) ==
    /\ pointer_down
    /\ images # <<>>
    /\ editing_mode
    /\ ~ /\ editing_spine \in DOMAIN spine_annotations
         /\ current_image_idx \in DOMAIN spine_annotations[editing_spine]
    /\ pointer_down' = FALSE
    /\ UNCHANGED lastOp
    /\ UNCHANGED <<stackVars, current_spine_name, storeVars, viewVars,
                   gestureVars, spine_dropdown, global_minmax, snapshot_file, gestures>>

\* on_canvas_release while drawing: save_annotation from the anchor to the
\* release point, then leave drawing.
on_canvas_release_draw(p) ==
    LET img == canvas_to_image_coords(FromInt(p[1]), FromInt(p[2]))
    IN /\ pointer_down
       /\ images # <<>>
       /\ ~editing_mode
       /\ drawing
       /\ current_image_idx < Len(images)
       /\ save_annotation(start_x, start_y, img[1], img[2])
       /\ drawing' = FALSE
       /\ pointer_down' = FALSE
       /\ lastOp' = Op("on_canvas_release", "draw")
       /\ UNCHANGED <<stackVars, current_spine_name, viewVars, editing_mode,
                      editing_spine, editing_corner, start_x, start_y,
                      original_box, editing_frame, snapshot_file, gestures>>

\* on_canvas_release while drawing with the frame index past the stack:
\* save_annotation raises IndexError at images[current_image_idx].
on_canvas_release_draw_raise(p) ==
    /\ pointer_down
    /\ images # <<>>
    /\ ~editing_mode
    /\ drawing
    /\ current_image_idx >= Len(images)
    /\ pointer_down' = FALSE
    /\ UNCHANGED lastOp
    /\ UNCHANGED <<stackVars, current_spine_name, storeVars, viewVars,
                   gestureVars, spine_dropdown, global_minmax, snapshot_file, gestures>>

\* on_canvas_release with no gesture flag set: only the display is refreshed.
on_canvas_release_idle(p) ==
    /\ pointer_down
    /\ images # <<>>
    /\ ~editing_mode
    /\ ~drawing
    /\ spine_dropdown' =
         update_display(images, current_image_idx, spine_annotations,
                        spine_dropdown)
    /\ global_minmax' = display_bounds(images, current_image_idx, global_minmax)
    /\ pointer_down' = FALSE
    /\ UNCHANGED lastOp
    /\ UNCHANGED <<stackVars, current_spine_name, storeVars, viewVars,
                   gestureVars, snapshot_file, gestures>>

\* ------------------------------------------------------- spine management

\* change_spine_name: the entry holds a non-empty name other than the current.
change_spine_name(new_name) ==
    /\ new_name # current_spine_name
    /\ current_spine_name' = new_name
    /\ spine_dropdown' =
         update_display(images, current_image_idx, spine_annotations,
                        spine_dropdown)
    /\ global_minmax' = display_bounds(images, current_image_idx, global_minmax)
    /\ UNCHANGED lastOp
    /\ UNCHANGED <<stackVars, storeVars, viewVars, gestureVars, snapshot_file,
                   pointer_down, gestures>>

\* on_spine_selected: the user picks one of the names the dropdown lists.
on_spine_selected(selected_spine) ==
    /\ selected_spine \in spine_dropdown
    /\ current_spine_name' = selected_spine
    /\ spine_dropdown' =
         update_display(images, current_image_idx, spine_annotations,
                        spine_dropdown)
    /\ global_minmax' = display_bounds(images, current_image_idx, global_minmax)
    /\ UNCHANGED lastOp
    /\ UNCHANGED <<stackVars, storeVars, viewVars, gestureVars, snapshot_file,
                   pointer_down, gestures>>

\* The name the new_spine dialog proposes: f"spine_{len(spine_colors) + 1}".
suggested_name == "spine_" \o ToString(Cardinality(DOMAIN spine_colors) + 1)

\* new_spine: the dialog returns a non-empty name.
new_spine(spine_name) ==
    /\ current_spine_name' = spine_name
    /\ spine_dropdown' =
         update_display(images, current_image_idx, spine_annotations,
                        spine_dropdown)
    /\ global_minmax' = display_bounds(images, current_image_idx, global_minmax)
    /\ UNCHANGED lastOp
    /\ UNCHANGED <<stackVars, storeVars, viewVars, gestureVars, snapshot_file,
                   pointer_down, gestures>>

\* A delete that also forgets a spine whose last box it removed.
delete_current_box_drop_spine ==
    LET held == DictDel(spine_annotations[current_spine_name], current_image_idx)
    IN /\ current_spine_name \in DOMAIN spine_annotations
       /\ current_image_idx \in DOMAIN spine_annotations[current_spine_name]
       /\ spine_annotations' =
            IF DOMAIN held = {}
            THEN DictDel(spine_annotations, current_spine_name)
            ELSE DictSet(spine_annotations, current_spine_name, held)
       /\ measurements_df' =
            drop_rows(measurements_df, current_spine_name, current_image_idx)
       /\ spine_dropdown' =
            update_display(images, current_image_idx, spine_annotations',
                           spine_dropdown)
       /\ global_minmax' = display_bounds(images, current_image_idx, global_minmax)
       /\ lastOp' = Op("delete_current_box", "deleted")
       /\ UNCHANGED <<stackVars, current_spine_name, spine_colors, color_index,
                      viewVars, gestureVars, snapshot_file, pointer_down, gestures>>

\* delete_current_box: the box of (current spine, current frame) and its row.
delete_current_box ==
    /\ current_spine_name \in DOMAIN spine_annotations
    /\ current_image_idx \in DOMAIN spine_annotations[current_spine_name]
    /\ spine_annotations' =
         DictSet(spine_annotations, current_spine_name,
                 DictDel(spine_annotations[current_spine_name], current_image_idx))
    /\ measurements_df' =
         drop_rows(measurements_df, current_spine_name, current_image_idx)
    /\ spine_dropdown' =
         update_display(images, current_image_idx, spine_annotations',
                        spine_dropdown)
    /\ global_minmax' = display_bounds(images, current_image_idx, global_minmax)
    /\ lastOp' = Op("delete_current_box", "deleted")
    /\ UNCHANGED <<stackVars, current_spine_name, spine_colors, color_index,
                   viewVars, gestureVars, snapshot_file, pointer_down, gestures>>

\* delete_current_box when the active spine has no box on the current frame.
delete_current_box_absent ==
    /\ ~ /\ current_spine_name \in DOMAIN spine_annotations
         /\ current_image_idx \in DOMAIN spine_annotations[current_spine_name]
    /\ UNCHANGED lastOp
    /\ UNCHANGED <<stackVars, current_spine_name, storeVars, viewVars,
                   gestureVars, spine_dropdown, global_minmax, snapshot_file, pointer_down,
                   gestures>>

\* -------------------------------------------------------------- navigation

prev_image ==
    /\ images # <<>>
    /\ current_image_idx > 0
    /\ current_image_idx' = current_image_idx - 1
    /\ spine_dropdown' =
         update_display(images, current_image_idx', spine_annotations,
                        spine_dropdown)
    /\ global_minmax' = display_bounds(images, current_image_idx', global_minmax)
    /\ UNCHANGED lastOp
    /\ UNCHANGED <<images, image_paths, registration_applied,
                   current_spine_name, storeVars, viewVars,
                   gestureVars, snapshot_file, pointer_down, gestures>>

\* prev_image with no stack or at frame 0: the handler does nothing.
prev_image_return ==
    /\ ~(images # <<>> /\ current_image_idx > 0)
    /\ UNCHANGED vars

\* next_image with no stack or at (or past) the last frame: the handler does
\* nothing.
next_image_return ==
    /\ ~(images # <<>> /\ current_image_idx < Len(images) - 1)
    /\ UNCHANGED vars

next_image ==
    /\ images # <<>>
    /\ current_image_idx < Len(images) - 1
    /\ current_image_idx' = current_image_idx + 1
    /\ spine_dropdown' =
         update_display(images, current_image_idx', spine_annotations,
                        spine_dropdown)
    /\ global_minmax' = display_bounds(images, current_image_idx', global_minmax)
    /\ UNCHANGED lastOp
    /\ UNCHANGED <<images, image_paths, registration_applied,
                   current_spine_name, storeVars, viewVars,
                   gestureVars, snapshot_file, pointer_down, gestures>>

\* -------------------------------------------------------------------- view

\* The float literals of zoom_in and zoom_out: 1.2, 10.0 and 0.1, each the
\* double nearest to the decimal.
zoom_step == FDiv(FromInt(12), FromInt(10))
max_zoom == FromInt(10)
min_zoom == FDiv(FromInt(1), FromInt(10))

\* The clamps as they would be if they kept the factor as it is.
zoom_unclamped(z, limit) == z

\* min(z, 10.0) and max(z, 0.1).
clamp_zoom_high(z, limit) == FMin(z, limit)
clamp_zoom_low(z, limit) == FMax(z, limit)

\* zoom_in: min(zoom_factor * 1.2, 10.0), then update_display.
zoom_in ==
    /\ zoom_factor' = clamp_zoom_high(FMul(zoom_factor, zoom_step), max_zoom)
    /\ spine_dropdown' =
         update_display(images, current_image_idx, spine_annotations,
                        spine_dropdown)
    /\ global_minmax' = display_bounds(images, current_image_idx, global_minmax)
    /\ UNCHANGED lastOp
    /\ UNCHANGED <<stackVars, current_spine_name, storeVars, pan_x, pan_y,
                   gestureVars, snapshot_file, pointer_down, gestures>>

\* zoom_out: max(zoom_factor / 1.2, 0.1), then update_display.
zoom_out ==
    /\ zoom_factor' = clamp_zoom_low(FDiv(zoom_factor, zoom_step), min_zoom)
    /\ spine_dropdown' =
         update_display(images, current_image_idx, spine_annotations,
                        spine_dropdown)
    /\ global_minmax' = display_bounds(images, current_image_idx, global_minmax)
    /\ UNCHANGED lastOp
    /\ UNCHANGED <<stackVars, current_spine_name, storeVars, pan_x, pan_y,
                   gestureVars, snapshot_file, pointer_down, gestures>>

\* reset_view: zoom 1.0, pan (0, 0), then update_display.
reset_view ==
    /\ zoom_factor' = FromInt(1)
    /\ pan_x' = 0
    /\ pan_y' = 0
    /\ spine_dropdown' =
         update_display(images, current_image_idx, spine_annotations,
                        spine_dropdown)
    /\ global_minmax' = display_bounds(images, current_image_idx, global_minmax)
    /\ UNCHANGED lastOp
    /\ UNCHANGED <<stackVars, current_spine_name, storeVars, gestureVars,
                   snapshot_file, pointer_down, gestures>>

\* --------------------------------------------------------------- snapshots

\* save_annotations: the data dict dumped to the chosen file.
save_annotations ==
    /\ snapshot_file' =
         << [spine_annotations |-> encode_annotations(spine_annotations),
             spine_colors |-> spine_colors,
             color_index |-> color_index,
             image_paths |-> image_paths] >>
    /\ UNCHANGED lastOp
    /\ UNCHANGED <<stackVars, current_spine_name, storeVars, viewVars,
                   gestureVars, spine_dropdown, global_minmax, pointer_down, gestures>>

\* The measurement table rebuilt from a store, its rows in the order `keys`.
rebuilt_rows(store, keys) ==
    [i \in DOMAIN keys |-> row_data(keys[i][1], keys[i][2], store[keys[i][1]][keys[i][2]])]

\* The path check of load_annotations: a non-empty saved list that differs.
paths_mismatch(saved_paths) ==
    saved_paths # <<>> /\ saved_paths # image_paths

\* load_annotations, saved paths accepted: store, colours and counter are
\* replaced from the file and the table is rebuilt from the restored boxes.
load_annotations ==
    /\ snapshot_file # <<>>
    /\ LET data == snapshot_file[1]
       IN /\ spine_annotations' = decode_annotations(data.spine_annotations)
          /\ spine_colors' = data.spine_colors
          /\ color_index' = data.color_index
          /\ ~paths_mismatch(data.image_paths)
    /\ \E keys \in Orderings(BoxKeys(spine_annotations')) :
          measurements_df' = rebuilt_rows(spine_annotations', keys)
    /\ spine_dropdown' =
         update_display(images, current_image_idx, spine_annotations',
                        spine_dropdown)
    /\ global_minmax' = display_bounds(images, current_image_idx, global_minmax)
    /\ lastOp' = Op("load_annotations", "loaded")
    /\ UNCHANGED <<stackVars, current_spine_name, viewVars, gestureVars,
                   snapshot_file, pointer_down, gestures>>

\* load_annotations, saved paths differ: store, colours and counter have been
\* replaced from the file when the check returns; nothing else runs.
load_annotations_mismatch ==
    /\ snapshot_file # <<>>
    /\ LET data == snapshot_file[1]
       IN /\ spine_annotations' = decode_annotations(data.spine_annotations)
          /\ spine_colors' = data.spine_colors
          /\ color_index' = data.color_index
          /\ paths_mismatch(data.image_paths)
    /\ lastOp' = Op("load_annotations", "mismatch")
    /\ UNCHANGED <<stackVars, current_spine_name, measurements_df, viewVars,
                   gestureVars, spine_dropdown, global_minmax, snapshot_file, pointer_down,
                   gestures>>

\* ----------------------------------------------------------- specification

\* An annotation session: stacks are loaded, boxes are drawn, edited and
\* deleted.  The host delivers pointer-down, pointer-move and pointer-up in
\* this order and finishes a gesture before it invokes a control.
Next ==
    \/ \E p \in CanvasPoints : gestures < MaxGestures /\ on_canvas_click_return(p)
    \/ \E p \in CanvasPoints : gestures < MaxGestures /\ on_canvas_click_edit(p)
    \/ \E p \in CanvasPoints : gestures < MaxGestures /\ on_canvas_click_draw(p)
    \/ \E p \in CanvasPoints : on_canvas_drag_return(p)
    \/ \E p \in CanvasPoints : on_canvas_drag_edit(p)
    \/ \E p \in CanvasPoints : on_canvas_drag_preview(p)
    \/ \E p \in CanvasPoints : on_canvas_release_return(p)
    \/ \E p \in CanvasPoints : on_canvas_release_edit(p)
    \/ \E p \in CanvasPoints : on_canvas_release_draw(p)
    \/ \E folder \in DOMAIN Folders : ~pointer_down /\ load_images(folder)
    \/ \E name \in SpineNames : ~pointer_down /\ change_spine_name(name)
    \/ \E name \in SpineNames : ~pointer_down /\ on_spine_selected(name)
    \/ \E name \in SpineNames : ~pointer_down /\ new_spine(name)
    \/ ~pointer_down /\ delete_current_box
    \/ ~pointer_down /\ delete_current_box_absent
    \/ ~pointer_down /\ prev_image
    \/ ~pointer_down /\ next_image

Spec == Init /\ [][Next]_vars

\* A session in which boxes are drawn and deleted and snapshots are saved and
\* loaded, under the same host discipline.
NextSnapshot ==
    \/ \E p \in SnapshotPoints :
          gestures < MaxSnapshotGestures /\ on_canvas_click_return(p)
    \/ \E p \in SnapshotPoints :
          gestures < MaxSnapshotGestures /\ on_canvas_click_draw(p)
    \/ \E p \in SnapshotPoints : on_canvas_drag_return(p)
    \/ \E p \in SnapshotPoints : on_canvas_drag_preview(p)
    \/ \E p \in SnapshotPoints : on_canvas_release_return(p)
    \/ \E p \in SnapshotPoints : on_canvas_release_draw(p)
    \/ \E folder \in DOMAIN Folders : ~pointer_down /\ load_images(folder)
    \/ \E name \in SpineNames : ~pointer_down /\ change_spine_name(name)
    \/ \E name \in SpineNames : ~pointer_down /\ on_spine_selected(name)
    \/ \E name \in SpineNames : ~pointer_down /\ new_spine(name)
    \/ ~pointer_down /\ delete_current_box
    \/ ~pointer_down /\ delete_current_box_absent
    \/ ~pointer_down /\ prev_image
    \/ ~pointer_down /\ next_image
    \/ ~pointer_down /\ save_annotations
    \/ ~pointer_down /\ load_annotations
    \/ ~pointer_down /\ load_annotations_mismatch

SpecSnapshot == Init /\ [][NextSnapshot]_vars

\* A session on one stack in which boxes are drawn and edited by every handle.
NextHandles ==
    \/ \E p \in HandlePoints :
          gestures < MaxHandleGestures /\ on_canvas_click_return(p)
    \/ \E p \in HandlePoints :
          gestures < MaxHandleGestures /\ on_canvas_click_edit(p)
    \/ \E p \in HandlePoints :
          gestures < MaxHandleGestures /\ on_canvas_click_draw(p)
    \/ \E p \in HandlePoints : on_canvas_drag_return(p)
    \/ \E p \in HandlePoints : on_canvas_drag_edit(p)
    \/ \E p \in HandlePoints : on_canvas_drag_preview(p)
    \/ \E p \in HandlePoints : on_canvas_release_return(p)
    \/ \E p \in HandlePoints : on_canvas_release_edit(p)
    \/ \E p \in HandlePoints : on_canvas_release_draw(p)
    \/ ~pointer_down /\ images = <<>> /\ load_images("A")

SpecHandles == Init /\ [][NextHandles]_vars

\* A session of stack loads, some of which fail on a file, frame navigation
\* and registration, with boxes drawn in between.
NextStack ==
    \/ \E folder \in DOMAIN Folders : ~pointer_down /\ load_images(folder)
    \/ \E folder \in DOMAIN Folders :
          \E n \in 1..Len(Folders[folder]) :
             ~pointer_down /\ load_images_raise(folder, n)
    \/ ~pointer_down /\ register_images_raise
    \/ ~pointer_down /\ prev_image
    \/ ~pointer_down /\ next_image
    \/ ~pointer_down /\ prev_image_return
    \/ ~pointer_down /\ next_image_return
    \/ \E name \in SpineNames : ~pointer_down /\ change_spine_name(name)
    \/ \E p \in SnapshotPoints :
          gestures < MaxStackGestures /\ on_canvas_click_return(p)
    \/ \E p \in SnapshotPoints :
          gestures < MaxStackGestures /\ on_canvas_click_draw(p)
    \/ \E p \in SnapshotPoints : on_canvas_drag_return(p)
    \/ \E p \in SnapshotPoints : on_canvas_drag_preview(p)
    \/ \E p \in SnapshotPoints : on_canvas_release_return(p)
    \/ \E p \in SnapshotPoints : on_canvas_release_draw(p)
    \/ \E p \in SnapshotPoints : on_canvas_release_draw_raise(p)

SpecStack == Init /\ [][NextStack]_vars

\* A session that zooms in, out and back through the whole range, with boxes
\* drawn at the initial zoom.
NextZoom ==
    \/ ~pointer_down /\ zoom_in
    \/ ~pointer_down /\ zoom_out
    \/ ~pointer_down /\ reset_view
    \/ ~pointer_down /\ images = <<>> /\ load_images("A")
    \/ \E p \in SnapshotPoints :
          /\ gestures < MaxZoomGestures
          /\ zoom_factor = FromInt(1)
          /\ on_canvas_click_draw(p)
    \/ \E p \in SnapshotPoints : on_canvas_drag_preview(p)
    \/ \E p \in SnapshotPoints : on_canvas_release_draw(p)

SpecZoom == Init /\ [][NextZoom]_vars

\* A session in which a box is drawn and then approached again after one
\* zoom step.
NextView ==
    \/ ~pointer_down /\ zoom_factor = FromInt(1) /\ zoom_in
    \/ ~pointer_down /\ zoom_factor # FromInt(1) /\ zoom_out
    \/ ~pointer_down /\ images = <<>> /\ load_images("A")
    \/ \E p \in ViewPoints :
          gestures < MaxViewGestures /\ on_canvas_click_edit(p)
    \/ \E p \in ViewPoints :
          gestures < MaxViewGestures /\ on_canvas_click_draw(p)
    \/ \E p \in ViewPoints : on_canvas_drag_edit(p)
    \/ \E p \in ViewPoints : on_canvas_drag_preview(p)
    \/ \E p \in ViewPoints : on_canvas_release_edit(p)
    \/ \E p \in ViewPoints : on_canvas_release_draw(p)

SpecView == Init /\ [][NextView]_vars

\* A session in which the controls (reachable from the keyboard while the
\* pointer button is held) are used between the pointer events of a gesture.
NextMidGesture ==
    \/ \E p \in SnapshotPoints :
          gestures < MaxMidGestures /\ on_canvas_click_return(p)
    \/ \E p \in SnapshotPoints :
          gestures < MaxMidGestures /\ on_canvas_click_edit(p)
    \/ \E p \in SnapshotPoints :
          gestures < MaxMidGestures /\ on_canvas_click_draw(p)
    \/ \E p \in SnapshotPoints : on_canvas_drag_return(p)
    \/ \E p \in SnapshotPoints : on_canvas_drag_edit(p)
    \/ \E p \in SnapshotPoints : on_canvas_drag_preview(p)
    \/ \E p \in SnapshotPoints : on_canvas_release_return(p)
    \/ \E p \in SnapshotPoints : on_canvas_release_edit(p)
    \/ \E p \in SnapshotPoints : on_canvas_release_edit_raise(p)
    \/ \E p \in SnapshotPoints : on_canvas_release_draw(p)
    \/ \E p \in SnapshotPoints : on_canvas_release_idle(p)
    \/ load_images("A")
    \/ \E name \in SpineNames : change_spine_name(name)
    \/ delete_current_box
    \/ delete_current_box_absent
    \/ prev_image
    \/ next_image

SpecMidGesture == Init /\ [][NextMidGesture]_vars

\* A session on a one-frame stack in which each new spine takes the name the
\* dialog proposes, until the palette has been used up and wraps around.
NextPalette ==
    \/ ~pointer_down /\ images = <<>> /\ load_images("B")
    \/ /\ ~pointer_down
       /\ Cardinality(DOMAIN spine_colors) < MaxSpines
       /\ new_spine(suggested_name)
    \/ \E name \in spine_dropdown : ~pointer_down /\ on_spine_selected(name)
    \/ \E p \in PalettePoints :
          gestures < MaxPaletteGestures /\ on_canvas_click_edit(p)
    \/ \E p \in PalettePoints :
          gestures < MaxPaletteGestures /\ on_canvas_click_draw(p)
    \/ \E p \in PalettePoints : on_canvas_drag_edit(p)
    \/ \E p \in PalettePoints : on_canvas_drag_preview(p)
    \/ \E p \in PalettePoints : on_canvas_release_edit(p)
    \/ \E p \in PalettePoints : on_canvas_release_draw(p)

SpecPalette == Init /\ [][NextPalette]_vars


\* ------------------------------------------------------------------ claims

\* The (spine_name, image_idx) key of a row.
RowKey(r) == <<r.spine_name, r.image_idx>>

\* The rows of a table with the given key, in table order.
RowsOf(df, key) == SelectSeq(df, LAMBDA r : RowKey(r) = key)

\* The keys that have a row in a table.
TableKeys(df) == {RowKey(df[i]) : i \in DOMAIN df}

\* The box a store holds for a key.
BoxAt(store, key) == store[key[1]][key[2]]

\* The rows a store derives, as a set.
DerivedRows(store) ==
    {row_data(k[1], k[2], BoxAt(store, k)) : k \in BoxKeys(store)}

\* C1: the keys that have a box in spine_annotations are the keys that have a
\* row in the measurement table, and the table holds one row per key.
C1_KeysMatchTable ==
    /\ TableKeys(measurements_df) = BoxKeys(spine_annotations)
    /\ Len(measurements_df) = Cardinality(BoxKeys(spine_annotations))

\* C2: loading a snapshot whose image_paths differ from the loaded stack's
\* leaves spine_annotations, spine_colors, color_index and the table as they
\* were.
C2_MismatchLeavesStore ==
    [][ ( /\ load_annotations \/ load_annotations_mismatch
          /\ snapshot_file[1].image_paths # image_paths )
        => UNCHANGED storeVars ]_vars


\* The steps that end a gesture with a commit, and the editing pointer-move.
ReleaseEdit == \E p \in HandlePoints : on_canvas_release_edit(p)
ReleaseDraw == \E p \in HandlePoints : on_canvas_release_draw(p)
DragEdit == \E p \in HandlePoints : on_canvas_drag_edit(p)
Commit == ReleaseEdit \/ ReleaseDraw

\* The key a commit step writes, read in the state the step starts from.
CommitKey ==
    IF editing_mode THEN <<editing_spine, current_image_idx>>
    ELSE <<current_spine_name, current_image_idx>>

\* C3 as stated: in every reachable state each row of a key that has a box
\* carries the values derived from the box stored for that key.
C3_RowsNeverStale ==
    \A i \in DOMAIN measurements_df :
        LET r == measurements_df[i]
            k == RowKey(r)
        IN k \in BoxKeys(spine_annotations)
             => r = row_data(k[1], k[2], BoxAt(spine_annotations, k))

\* C3 amended: rows are recomputed at commit, not on each pointer-move. A
\* pointer-move of an Editing gesture changes the stored box and leaves the
\* table as it was; the pointer-up that ends a Drawing or an Editing gesture
\* leaves exactly one row for the committed key, derived from the box stored
\* for it.
C3_RowsRecomputedAtCommit ==
    [][ /\ DragEdit => measurements_df' = measurements_df
        /\ Commit =>
             RowsOf(measurements_df', CommitKey) =
               << row_data(CommitKey[1], CommitKey[2],
                           BoxAt(spine_annotations', CommitKey)) >> ]_vars

\* An edit was released on a box whose diagonal differs from that of the box
\* the gesture started from, and the last row carries the new values.
C3_Witness ==
    /\ lastOp = Op("on_canvas_release", "edit")
    /\ Len(measurements_df) >= 1
    /\ LET r == measurements_df[Len(measurements_df)]
       IN /\ RowKey(r) \in BoxKeys(spine_annotations)
          /\ r = row_data(r.spine_name, r.image_idx,
                          BoxAt(spine_annotations, RowKey(r)))
          /\ r.length_pixels # diagonal_pixels(original_box)

\* Whether a box lies inside the frame [0, w] x [0, h].
WithinFrame(b, img) ==
    /\ 0 <= b[1] /\ b[1] <= img.w
    /\ 0 <= b[3] /\ b[3] <= img.w
    /\ 0 <= b[2] /\ b[2] <= img.h
    /\ 0 <= b[4] /\ b[4] <= img.h

\* C4: every box committed on pointer-up, by a Drawing or by an Editing
\* gesture, lies within [0, width] x [0, height] of the current frame.
C4_CommittedWithinFrame ==
    [][ Commit =>
          WithinFrame(BoxAt(spine_annotations', CommitKey),
                      images[current_image_idx + 1]) ]_vars

\* C5: after any commit (pointer-up ending a Drawing or an Editing gesture)
\* the committed box has x1 <= x2 and y1 <= y2.
C5_CommittedOrdered ==
    [][ Commit =>
          LET b == BoxAt(spine_annotations', CommitKey)
          IN b[1] <= b[3] /\ b[2] <= b[4] ]_vars

\* The tl handle of (10,10,30,30) was dragged across the opposite corner and
\* released: the stored box is (30,30,50,50).
C5_Witness ==
    /\ lastOp = Op("on_canvas_release", "edit")
    /\ original_box = <<10, 10, 30, 30>>
    /\ start_x = 10 /\ start_y = 10
    /\ \E k \in BoxKeys(spine_annotations) :
          BoxAt(spine_annotations, k) = <<30, 30, 50, 50>>


\* What save_annotations would write in the current state.
SavedNow ==
    [spine_annotations |-> encode_annotations(spine_annotations),
     spine_colors |-> spine_colors,
     color_index |-> color_index,
     image_paths |-> image_paths]

\* The rows of a table, as a set.
RowSet(df) == {df[i] : i \in DOMAIN df}

C7_RowValues ==
    [][ Commit =>
          LET b == BoxAt(spine_annotations', CommitKey)
              r == measurements_df'[Len(measurements_df')]
              sq == (b[3] - b[1]) * (b[3] - b[1]) + (b[4] - b[2]) * (b[4] - b[2])
              lp == r.length_pixels
              lm == r.length_microns
          IN /\ RowKey(r) = CommitKey
             /\ 4 * sq * 10000 <= (2 * lp + 1) * (2 * lp + 1)
             /\ lp = 0 \/ (2 * lp - 1) * (2 * lp - 1) <= 4 * sq * 10000
             /\ 2 * Abs(31 * lm - 4 * lp) <= 31
             /\ r.stable <=> sq < 50 * 50
             /\ b = <<10, 10, 50, 50>> =>
                  lp = 5657 /\ lm = 730 /\ r.stable = FALSE ]_vars

\* Box (10,10,50,50) was committed and its row reads 56.57 px, 7.30 um,
\* not stable.
C7_Witness ==
    /\ lastOp.op = "on_canvas_release"
    /\ Len(measurements_df) >= 1
    /\ LET r == measurements_df[Len(measurements_df)]
       IN /\ RowKey(r) \in BoxKeys(spine_annotations)
          /\ BoxAt(spine_annotations, RowKey(r)) = <<10, 10, 50, 50>>
          /\ r.length_pixels = 5657
          /\ r.length_microns = 730
          /\ r.stable = FALSE


\* C8: when a key holds a box together with the row derived from it (the
\* box was committed) and a commit stores that same box for the key again,
\* the store, the colours and the colour counter stay as they were, the key
\* keeps exactly one row and the table keeps its rows; when the key's row was
\* the last one written, the table is the same row for row.
C8_CommitIdempotent ==
    [][ ( /\ Commit
          /\ CommitKey \in BoxKeys(spine_annotations)
          /\ RowsOf(measurements_df, CommitKey) =
               << row_data(CommitKey[1], CommitKey[2],
                           BoxAt(spine_annotations, CommitKey)) >>
          /\ BoxAt(spine_annotations', CommitKey) =
               BoxAt(spine_annotations, CommitKey) )
        => /\ UNCHANGED <<spine_annotations, spine_colors, color_index>>
           /\ Len(RowsOf(measurements_df', CommitKey)) = 1
           /\ RowSet(measurements_df') = RowSet(measurements_df)
           /\ Len(measurements_df') = Len(measurements_df)
           /\ RowKey(measurements_df[Len(measurements_df)]) = CommitKey
                => UNCHANGED measurements_df ]_vars

\* A second gesture was released on the box as the first gesture committed
\* it, and the table holds the one row of that box.
C8_Witness ==
    /\ gestures = 2
    /\ lastOp = Op("on_canvas_release", "edit")
    /\ Len(measurements_df) = 1
    /\ LET k == RowKey(measurements_df[1])
       IN /\ BoxKeys(spine_annotations) = {k}
          /\ BoxAt(spine_annotations, k) = original_box
          /\ measurements_df[1] = row_data(k[1], k[2], original_box)

\* The displacement a handle applies to each of the four coordinates.
HandleShift(corner, dx, dy) ==
    << IF corner \in {"tl", "bl", "move"} THEN dx ELSE 0,
       IF corner \in {"tl", "tr", "move"} THEN dy ELSE 0,
       IF corner \in {"tr", "br", "move"} THEN dx ELSE 0,
       IF corner \in {"bl", "br", "move"} THEN dy ELSE 0 >>

\* C9: the pointer-down that starts an Editing gesture captures the stored box
\* and the anchor; each pointer-move then sets the box to the captured box
\* with (current - anchor) applied to the held handle, whatever the moves
\* before it: a corner changes only its own two coordinates, 'move' all four.
\* Dragging tl of (10,10,50,50) by (+5,+5) gives (15,15,50,50), and its
\* release writes a row with length 49.50 and stable True.
C9_EditDrag ==
    [][ /\ \A p \in HandlePoints :
             on_canvas_click_edit(p) =>
               /\ original_box' =
                    BoxAt(spine_annotations, <<editing_spine', current_image_idx>>)
               /\ <<start_x', start_y'>> = canvas_to_image_coords(FromInt(p[1]), FromInt(p[2]))
               /\ editing_corner' \in {"tl", "tr", "bl", "br", "move"}
        /\ \A p \in HandlePoints :
             on_canvas_drag_edit(p) =>
               LET img == canvas_to_image_coords(FromInt(p[1]), FromInt(p[2]))
                   sh == HandleShift(editing_corner, img[1] - start_x,
                                     img[2] - start_y)
                   b == BoxAt(spine_annotations', CommitKey)
               IN /\ \A i \in 1..4 : b[i] = original_box[i] + sh[i]
                  /\ ( /\ original_box = <<10, 10, 50, 50>>
                       /\ editing_corner = "tl"
                       /\ img[1] - start_x = 5 /\ img[2] - start_y = 5 )
                     => b = <<15, 15, 50, 50>>
        /\ ( ReleaseEdit /\
             BoxAt(spine_annotations, CommitKey) = <<15, 15, 50, 50>> )
           => LET r == measurements_df'[Len(measurements_df')]
              IN /\ RowKey(r) = CommitKey
                 /\ r.length_pixels = 4950
                 /\ r.stable = TRUE ]_vars

\* The tl handle of (10,10,50,50) was pressed at (10,10), dragged by (+5,+5)
\* and released: the box is (15,15,50,50) and its row is stable.
C9_Witness ==
    /\ lastOp = Op("on_canvas_release", "edit")
    /\ original_box = <<10, 10, 50, 50>>
    /\ start_x = 10 /\ start_y = 10
    /\ Len(measurements_df) >= 1
    /\ LET r == measurements_df[Len(measurements_df)]
       IN /\ RowKey(r) \in BoxKeys(spine_annotations)
          /\ BoxAt(spine_annotations, RowKey(r)) = <<15, 15, 50, 50>>
          /\ r.length_pixels = 4950
          /\ r.stable = TRUE

\* C10: deleting the current box removes the box of (active spine, current
\* frame) and its row in one step and changes no other box, row, colour or
\* the colour counter; with no box there, the store and the table stay as
\* they are.
C10_DeleteRemovesBoxAndRow ==
    [][ /\ delete_current_box =>
             LET k == <<current_spine_name, current_image_idx>>
             IN /\ k \in BoxKeys(spine_annotations)
                /\ BoxKeys(spine_annotations') = BoxKeys(spine_annotations) \ {k}
                /\ \A j \in BoxKeys(spine_annotations') :
                      BoxAt(spine_annotations', j) = BoxAt(spine_annotations, j)
                /\ measurements_df' =
                     SelectSeq(measurements_df, LAMBDA r : RowKey(r) # k)
                /\ spine_colors' = spine_colors
                /\ color_index' = color_index
        /\ delete_current_box_absent => UNCHANGED storeVars ]_vars

\* A box was deleted while another box stayed: the deleted key has neither
\* box nor row, the other key has both.
C10_Witness ==
    /\ lastOp = Op("delete_current_box", "deleted")
    /\ LET k == <<current_spine_name, current_image_idx>>
       IN /\ k \notin BoxKeys(spine_annotations)
          /\ k \notin TableKeys(measurements_df)
    /\ BoxKeys(spine_annotations) # {}
    /\ TableKeys(measurements_df) = BoxKeys(spine_annotations)


\* The integer image points on the diagonal of a frame of stack A.
DiagonalPoints == {<<i, i>> : i \in 0..Folders["A"][1].w}

\* C11: at every zoom factor the session reaches, every integer image point
\* mapped to the canvas and back is the point itself.
C11_TransformRoundTrip ==
    \A pt \in DiagonalPoints :
       LET c == image_to_canvas_coords(pt[1], pt[2])
       IN canvas_to_image_coords(c[1], c[2]) = pt

\* Canvas coordinate c is within 8 canvas pixels of the canvas position s
\* (s >= 0).
ScreenNear(c, s) ==
    /\ FCmp(s, FromInt(c + 8)) <= 0
    /\ FCmp(FromInt(Max(c - 8, 0)), s) <= 0

\* Canvas point p is within 8 canvas pixels, on each axis, of the canvas
\* position of a corner of the active spine's box on the current frame.
GrabsCorner(p) ==
    /\ current_spine_name \in DOMAIN spine_annotations
    /\ current_image_idx \in DOMAIN spine_annotations[current_spine_name]
    /\ \E i \in 1..4 :
          LET c == corners(spine_annotations[current_spine_name]
                                            [current_image_idx])[i]
              s == image_to_canvas_coords(c[1], c[2])
          IN ScreenNear(p[1], s[1]) /\ ScreenNear(p[2], s[2])

\* C12: a pointer-down within 8 canvas pixels of the canvas position of a
\* corner of the active spine's box on the current frame takes that box by
\* a corner handle: the gesture enters Editing, not Drawing.
C12_ScreenGrab ==
    [][ \A p \in ViewPoints :
           ( /\ ~pointer_down
             /\ pointer_down'
             /\ on_canvas_click_edit(p) \/ on_canvas_click_draw(p)
             /\ GrabsCorner(p) )
           => /\ editing_mode'
              /\ ~drawing'
              /\ \E i \in 1..4 : editing_corner' = CornerNames[i] ]_vars

\* A stack load that stops at one of the folder's files.
FailedLoad ==
    \E folder \in DOMAIN Folders :
       \E n \in 1..Len(Folders[folder]) : load_images_raise(folder, n)

\* C13: a stack load that fails on some file leaves the frame list, the path
\* list, the current index, the registration flag and the normalization
\* cache exactly as they were before the load.
C13_FailedLoadKeepsStack ==
    [][ FailedLoad =>
           UNCHANGED <<images, image_paths, current_image_idx,
                       registration_applied, global_minmax>> ]_vars

\* C14: a registration that fails leaves every frame and the registration
\* flag unchanged, and the failure is reported.
C14_FailedRegistration ==
    [][ register_images_raise =>
           /\ images' = images
           /\ registration_applied' = registration_applied
           /\ lastOp' = Op("register_images", "registration failed") ]_vars

\* A registration failed on a loaded stack of more than one frame.
C14_Witness ==
    /\ lastOp = Op("register_images", "registration failed")
    /\ Len(images) > 1
    /\ ~registration_applied

\* C15: the normalization cache never outlives the frames it was computed
\* from: whenever it is set, it holds the bounds of the frames of the stack
\* as it is now.
C15_CacheOfCurrentFrames ==
    global_minmax # <<>> => global_minmax = <<minmax_of(images)>>


\* C16: once a spine name has a colour, no step of the session changes the
\* colour mapped to that name.
C16_ColourStable ==
    [][ \A s \in DOMAIN spine_colors :
           /\ s \in DOMAIN spine_colors'
           /\ spine_colors'[s] = spine_colors[s] ]_vars

\* The zoom factor lies in [0.1, 10.0].
ZoomInRange ==
    /\ FCmp(min_zoom, zoom_factor) <= 0
    /\ FCmp(zoom_factor, max_zoom) <= 0

\* C17: the zoom factor always lies in [0.1, 10.0]; zoom-in sets it to the
\* factor times 1.2, or to 10.0 if that is more; zoom-out to the factor
\* divided by 1.2, or to 0.1 if that is less; reset to 1.0 with pan (0, 0);
\* none of the three changes a stored box, a colour or a measurement row.
C17_ZoomBounded ==
    /\ []ZoomInRange
    /\ [][ /\ zoom_in =>
                LET prod == FMul(zoom_factor, zoom_step)
                IN /\ zoom_factor' =
                        IF FCmp(prod, max_zoom) > 0 THEN max_zoom ELSE prod
                   /\ UNCHANGED <<pan_x, pan_y, storeVars>>
           /\ zoom_out =>
                LET quot == FDiv(zoom_factor, zoom_step)
                IN /\ zoom_factor' =
                        IF FCmp(quot, min_zoom) < 0 THEN min_zoom ELSE quot
                   /\ UNCHANGED <<pan_x, pan_y, storeVars>>
           /\ reset_view =>
                /\ zoom_factor' = FromInt(1)
                /\ pan_x' = 0
                /\ pan_y' = 0
                /\ UNCHANGED storeVars ]_vars

\* The view was zoomed in to the upper clamp with a box and its row stored.
C17_Witness ==
    /\ zoom_factor = max_zoom
    /\ BoxKeys(spine_annotations) # {}
    /\ TableKeys(measurements_df) = BoxKeys(spine_annotations)

\* C18: a snapshot is accepted (its boxes replace the store and the table is
\* rebuilt from them) only when its image_paths list equals the path list of
\* the loaded stack.
C18_AcceptedOnlyOnEqualPaths ==
    [][ load_annotations => snapshot_file[1].image_paths = image_paths ]_vars


\* The pointer-down steps that start a gesture on a loaded stack.
ClickEdit(p) == on_canvas_click_edit(p)
ClickDraw(p) == on_canvas_click_draw(p)

\* Whether image point (x, y) is within the hit tolerance of point c.
NearCorner(x, y, c) ==
    /\ within_tolerance(x - c[1])
    /\ within_tolerance(y - c[2])

\* C19: a pointer-down from Idle enters Editing iff the image-space pointer is
\* within tolerance of a corner of, or inside, the active spine's box on the
\* current frame, and enters Drawing otherwise; a point both near a corner and
\* inside the box selects the corner; with no box of the active spine on the
\* current frame only Drawing is entered, whatever the other spines hold.
C19_PointerDownMode ==
    [][ \A p \in HandlePoints :
          (~pointer_down /\ pointer_down' /\ (ClickEdit(p) \/ ClickDraw(p))) =>
            LET img == canvas_to_image_coords(FromInt(p[1]), FromInt(p[2]))
                k == <<current_spine_name, current_image_idx>>
                has == k \in BoxKeys(spine_annotations)
                b == BoxAt(spine_annotations, k)
                near == {c \in {<<b[1], b[2]>>, <<b[3], b[2]>>,
                                <<b[1], b[4]>>, <<b[3], b[4]>>} :
                           NearCorner(img[1], img[2], c)}
                inside == /\ b[1] <= img[1] /\ img[1] <= b[3]
                          /\ b[2] <= img[2] /\ img[2] <= b[4]
                edit == has /\ (near # {} \/ inside)
            IN /\ ~drawing /\ ~editing_mode
               /\ editing_mode' <=> edit
               /\ drawing' <=> ~edit
               /\ <<start_x', start_y'>> = img
               /\ edit => /\ editing_spine' = current_spine_name
                          /\ (near # {}) <=>
                               editing_corner' \in {"tl", "tr", "bl", "br"}
                          /\ (near = {}) <=> editing_corner' = "move"
               /\ ~has => drawing' /\ ~editing_mode' ]_vars

\* Drawing was entered for a spine with no box on the current frame, at a
\* point inside another spine's box on that frame.
C19_Witness ==
    /\ pointer_down /\ drawing /\ ~editing_mode
    /\ <<current_spine_name, current_image_idx>> \notin BoxKeys(spine_annotations)
    /\ \E k \in BoxKeys(spine_annotations) :
          /\ k[2] = current_image_idx
          /\ LET b == BoxAt(spine_annotations, k)
             IN /\ b[1] < start_x /\ start_x < b[3]
                /\ b[2] < start_y /\ start_y < b[4]


\* v limited to [0, limit].
Limited(v, limit) == IF v < 0 THEN 0 ELSE IF v > limit THEN limit ELSE v

\* C20: pointer-up in Drawing stores, for the active spine on the current
\* frame, the box with the anchor and release points ordered on each axis and
\* each coordinate limited to the frame, leaves one row for it derived from
\* that box, changes no other box or row, and leaves Drawing for Idle; a
\* release on the anchor stores a point box.
C20_DrawCommit ==
    [][ \A p \in HandlePoints :
          (pointer_down /\ on_canvas_release_draw(p)) =>
            LET r == canvas_to_image_coords(FromInt(p[1]), FromInt(p[2]))
                k == <<current_spine_name, current_image_idx>>
                f == images[current_image_idx + 1]
                lox == IF start_x <= r[1] THEN start_x ELSE r[1]
                hix == IF start_x <= r[1] THEN r[1] ELSE start_x
                loy == IF start_y <= r[2] THEN start_y ELSE r[2]
                hiy == IF start_y <= r[2] THEN r[2] ELSE start_y
                box == <<Limited(lox, f.w), Limited(loy, f.h),
                         Limited(hix, f.w), Limited(hiy, f.h)>>
            IN /\ drawing /\ ~editing_mode
               /\ BoxKeys(spine_annotations') = BoxKeys(spine_annotations) \cup {k}
               /\ BoxAt(spine_annotations', k) = box
               /\ \A j \in BoxKeys(spine_annotations) \ {k} :
                     BoxAt(spine_annotations', j) = BoxAt(spine_annotations, j)
               /\ RowsOf(measurements_df', k) = <<row_data(k[1], k[2], box)>>
               /\ SelectSeq(measurements_df', LAMBDA x : RowKey(x) # k) =
                    SelectSeq(measurements_df, LAMBDA x : RowKey(x) # k)
               /\ ~drawing' /\ ~editing_mode' /\ ~pointer_down'
               /\ (r = <<start_x, start_y>>) =>
                    (box[1] = box[3] /\ box[2] = box[4]) ]_vars

\* A drag of zero displacement was released next to an existing box: the
\* point box and the other box are both in the store.
C20_Witness ==
    /\ lastOp = Op("on_canvas_release", "draw")
    /\ ~drawing /\ ~pointer_down
    /\ Len(measurements_df) = 2
    /\ LET k == RowKey(measurements_df[2])
       IN /\ k \in BoxKeys(spine_annotations)
          /\ BoxAt(spine_annotations, k) = <<start_x, start_y, start_x, start_y>>


\* A pointer-move handled by the drawing branch of on_canvas_drag.
DragPreview == \E p \in HandlePoints : on_canvas_drag_preview(p)

\* C21: while a box is being drawn, a pointer-move changes neither the
\* boxes, the colours, the colour index nor the measurement table, and every
\* step that leaves the gesture open leaves them unchanged: only the
\* pointer-up that ends the gesture writes them.
C21_DrawingMoveKeepsStore ==
    [][ (pointer_down /\ drawing) =>
           /\ DragPreview => UNCHANGED storeVars
           /\ (pointer_down' /\ drawing') => UNCHANGED storeVars ]_vars

\* A box is being drawn while the store already holds a box and its row.
C21_Witness ==
    /\ pointer_down
    /\ drawing
    /\ BoxKeys(spine_annotations) # {}
    /\ TableKeys(measurements_df) = BoxKeys(spine_annotations)

\* Every (spine, frame) pair of a session on stack A.
StackKeys == SpineNames \X (0..(Len(Folders["A"]) - 1))

\* C22: the pointer-moves and the pointer-up of an Editing gesture write
\* only the box and row of the spine and frame taken at pointer-down: for
\* every other (spine, frame) the box and the rows are after the step what
\* they were before it (none created, none changed), whatever was done
\* between the pointer events.
C22_EditTouchesOnlyItsBox ==
    [][ (editing_mode /\ (DragEdit \/ ReleaseEdit)) =>
           \A k \in StackKeys \ {<<editing_spine, editing_frame>>} :
              /\ k \in BoxKeys(spine_annotations')
                    <=> k \in BoxKeys(spine_annotations)
              /\ k \in BoxKeys(spine_annotations) =>
                    BoxAt(spine_annotations', k) = BoxAt(spine_annotations, k)
              /\ RowsOf(measurements_df', k) = RowsOf(measurements_df, k)
      ]_vars

\* C24: drawing and editing_mode are never both set, and whenever the
\* pointer button is up (before the first gesture and after each pointer-up)
\* neither is set.
C24_FlagsExclusive ==
    /\ ~(drawing /\ editing_mode)
    /\ ~pointer_down => (~drawing /\ ~editing_mode)

\* C23: with no snapshot loaded, the k-th distinct spine to receive a box has
\* the colour available_colors[(k-1) mod 8], color_index equals the number of
\* spines created, a spine's first committed box gives it the next palette
\* entry and advances color_index by one, and no other step (a further commit
\* for an existing spine included) changes a colour or color_index.
Palette(k) == available_colors[((k - 1) % 8) + 1]

C23_PaletteInCreationOrder ==
    /\ [](/\ color_index = Cardinality(DOMAIN spine_colors)
          /\ \A k \in 1..color_index :
                /\ ("spine_" \o ToString(k)) \in DOMAIN spine_colors
                /\ spine_colors["spine_" \o ToString(k)] = Palette(k))
    /\ [][ IF DOMAIN spine_colors' = DOMAIN spine_colors
           THEN spine_colors' = spine_colors /\ color_index' = color_index
           ELSE /\ color_index' = color_index + 1
                /\ DOMAIN spine_colors' = DOMAIN spine_colors \cup {current_spine_name}
                /\ spine_colors'[current_spine_name] = Palette(color_index + 1)
                /\ \A n \in DOMAIN spine_colors : spine_colors'[n] = spine_colors[n]
         ]_vars

C23_Witness ==
    /\ color_index = MaxSpines
    /\ gestures > MaxSpines
    /\ ~pointer_down
    /\ "spine_9" \in DOMAIN spine_colors
    /\ spine_colors["spine_9"] = available_colors[1]
    /\ spine_colors["spine_8"] = available_colors[8]

\* C25: in every reachable state each box of the store is keyed by a frame
\* index of the currently loaded stack (0 .. number of frames - 1) and lies
\* within the bounds of that frame, also after another stack was loaded while
\* annotations existed.
C25_StoreWithinStack ==
    \A k \in BoxKeys(spine_annotations) :
       /\ 0 <= k[2] /\ k[2] < Len(images)
       /\ WithinFrame(BoxAt(spine_annotations, k), images[k[2] + 1])

\* C26: whenever the stack is non-empty, 0 <= current_image_idx < number of
\* frames, after any sequence of next/prev, stack loads (successful or
\* failing) and registrations; next at the last frame and prev at frame 0
\* leave the index unchanged.
C26_IndexWithinStack ==
    /\ [](images # <<>> =>
             (0 <= current_image_idx /\ current_image_idx < Len(images)))
    /\ [][ /\ (/\ images # <<>>
              /\ current_image_idx = Len(images) - 1
              /\ (next_image \/ next_image_return))
              => current_image_idx' = current_image_idx
           /\ (/\ images # <<>>
              /\ current_image_idx = 0
              /\ (prev_image \/ prev_image_return))
              => current_image_idx' = current_image_idx ]_vars

\* The active spine is in the store and has no box on any frame.
SpineWithoutBoxes ==
    /\ current_spine_name \in DOMAIN spine_annotations
    /\ DOMAIN spine_annotations[current_spine_name] = {}

RedrawCommit ==
    \E p \in CanvasPoints \cup HandlePoints : on_canvas_release_draw(p)

\* C27: deleting the last remaining box of a spine keeps the spine in the
\* store, with no boxes, and in the list of spines, and keeps its colour; a
\* box drawn for that spine afterwards is stored under the same colour and
\* does not advance color_index.
C27_EmptiedSpineKeepsColour ==
    /\ [][ (/\ delete_current_box
            /\ Cardinality(DOMAIN spine_annotations[current_spine_name]) = 1)
           => /\ SpineWithoutBoxes'
              /\ DOMAIN spine_annotations' = DOMAIN spine_annotations
              /\ current_spine_name \in spine_dropdown'
              /\ current_spine_name \in DOMAIN spine_colors'
              /\ spine_colors' = spine_colors
              /\ color_index' = color_index ]_vars
    /\ [][ (SpineWithoutBoxes /\ RedrawCommit)
           => /\ <<current_spine_name, current_image_idx>>
                    \in BoxKeys(spine_annotations')
              /\ spine_colors' = spine_colors
              /\ color_index' = color_index ]_vars
    /\ [](\A n \in DOMAIN spine_annotations : n \in DOMAIN spine_colors)

\* A box is being drawn for a spine whose only box was deleted: the spine is
\* in the store without boxes and still has its colour.
C27_Witness ==
    /\ pointer_down /\ drawing
    /\ SpineWithoutBoxes
    /\ current_spine_name \in DOMAIN spine_colors
    /\ spine_colors[current_spine_name] = available_colors[1]
    /\ color_index = 1
====
